---- MODULE Spec2Model ----
(***************************************************************************)
(* Model of the project-network visualisation: the data loader             *)
(* (normalizeData), the filter engine (applyFilters, resetFilters, the     *)
(* filter tags) and the interaction controller (hover, mouse-out, click,   *)
(* popup) of the four revisions kept in the repository:                    *)
(*   "main" = src/main.js          (detail panel, no clicked node)         *)
(*   "p1"   = src/unnamed/part_001 (popup, clickedNode)                    *)
(*   "p2"   = src/unnamed/part_002 (popup tags, clickedNode, hoveredNode)  *)
(*   "p0"   = src/unnamed/part_000 (neighbour highlight, edge opacity)     *)
(*                                                                         *)
(* Strings that the code splits, trims, sorts, joins or lower-cases are    *)
(* sequences of UTF-16 code units.  Opacities are integer percentages      *)
(* (1 -> 100, 0.6 -> 60, 0.25 -> 25, 0.2 -> 20, 0.15 -> 15).  A node is    *)
(* named by its index in the nodes array; 0 stands for null.               *)
(***************************************************************************)
EXTENDS Integers, Sequences, FiniteSets, TLC

VARIABLES
  variant,         \* which revision of the program is running
  pc,              \* "start" before init(), "ready" after it, "empty" when init() returned early
  csvData,         \* the rows d3.csv delivers
  nodes,           \* let nodes
  links,           \* let links
  selectedTypes,   \* let selectedTypes = new Set()
  selectedFields,  \* let selectedFields = new Set()
  searchQuery,     \* let searchQuery = ''
  clickedNode,     \* let clickedNode = null   (p0, p1, p2)
  hoveredNode,     \* let hoveredNode = null   (p0, p2)
  nodeOpacity,     \* the opacity attribute of each node (circle or node group)
  labelOpacity,    \* the opacity attribute of each node label (written by p2 only)
  linkOpacity,     \* the stroke-opacity attribute of each link line
  popupVisible,    \* popup.style.display = 'block' / class 'active' (detail panel in main)
  popupNode,       \* the node whose content the popup's innerHTML holds
  popupHtml,       \* popup.innerHTML: the elements rendered and the text of the type line
  popupTagActive,  \* the fields whose popup tag carries the class 'active'
  popupHandlers,   \* number of click listeners registered on the popup element (p0)
  typeTagActive,   \* sidebar type tags carrying the class 'active'
  fieldTagActive,  \* sidebar field tags carrying the class 'active'
  fetchError,      \* TRUE when d3.csv('projects_dataset.csv') rejects
  width,           \* width of the visualisation container
  xTarget,         \* the target forceX pulls each node to
  nodePos,         \* d.x, d.y of each node, as the simulation left them
  transform,       \* d3.zoomTransform(svg.node()): k, x, y
  popupPos,        \* popup.style.left / top, in px
  height,          \* height of the visualisation container
  yTarget,         \* the target forceY pulls every node to
  center,          \* the point forceCenter keeps the nodes around
  pin,             \* d.fx, d.fy of each node: <<>> when null, else <<fx, fy>>
  gestures,        \* the drag behaviour's active gestures: pointer -> node, 0 when none
  alphaTarget,     \* simulation.alphaTarget()
  alpha,           \* simulation.alpha()
  running,         \* the simulation's timer is running
  timers,          \* pending setTimeout callbacks: the target region of each deferred touchend
  lastEvent,       \* history: the event dispatched last, <<name, argument>>
  recomputes,      \* history: how many times applyFilters ran during the last event
  preToggle,       \* history: node opacities and selectedFields just before the last field toggle
  interacted       \* history: a hover, click, mouse-out, filter or reset event was dispatched

vars == <<variant, pc, csvData, nodes, links, selectedTypes, selectedFields,
          searchQuery, clickedNode, hoveredNode, nodeOpacity, labelOpacity,
          linkOpacity, popupVisible, popupNode, popupHtml, popupTagActive, popupHandlers,
          typeTagActive, fieldTagActive, fetchError, width, xTarget, nodePos,
          transform, popupPos, height, yTarget, center, pin, gestures,
          alphaTarget, alpha, running, timers, lastEvent, recomputes, preToggle,
          interacted>>

(***************************************************************************)
(* Bounds of the model.                                                    *)
(***************************************************************************)
\* Rows of the datasets normalizeData is checked on.
MaxRows == 2
\* Cap on the number of showPopup calls in part_000 (each adds listeners).
MaxHandlers == 2
\* The simulation's ticks leave the nodes in one of the layouts 0..MaxLayout.
MaxLayout == 1
\* Zoom factors 1..MaxZoom of the pan/zoom transforms.
MaxZoom == 2

\* Touch points that can drag at the same time, next to the mouse.
MaxTouches == 1

\* Deferred outside-click checks that can be pending at the same time.
MaxTimers == 1

Variants == {"main", "p0", "p1", "p2"}

(***************************************************************************)
(* String helpers: String.prototype.split(','), trim, toLowerCase,         *)
(* includes, and the default Array.prototype.sort order.                   *)
(***************************************************************************)
Max(S) == CHOOSE x \in S : \A y \in S : y <= x

Min(a, b) == IF a <= b THEN a ELSE b

\* space, tab, line feed, carriage return
WhiteSpace == {32, 9, 10, 13}

RECURSIVE SplitAcc(_, _, _)
SplitAcc(s, i, cur) ==
  IF i > Len(s) THEN <<cur>>
  ELSE IF s[i] = 44   \* ','
       THEN <<cur>> \o SplitAcc(s, i + 1, <<>>)
       ELSE SplitAcc(s, i + 1, Append(cur, s[i]))

RECURSIVE TrimStart(_)
TrimStart(s) ==
  IF s # <<>> /\ Head(s) \in WhiteSpace THEN TrimStart(Tail(s)) ELSE s

RECURSIVE TrimEnd(_)
TrimEnd(s) ==
  IF s # <<>> /\ s[Len(s)] \in WhiteSpace
  THEN TrimEnd(SubSeq(s, 1, Len(s) - 1)) ELSE s

Trim(s) == TrimEnd(TrimStart(s))

NonEmpty(s) == Len(s) > 0

\* row.x ? row.x.split(',').map(f => f.trim()).filter(f => f.length > 0) : []
SplitList(raw) ==
  IF raw = <<>> THEN <<>>
  ELSE LET parts == SplitAcc(raw, 1, <<>>)
       IN SelectSeq([i \in 1..Len(parts) |-> Trim(parts[i])], NonEmpty)

ToLowerCase(s) ==
  [i \in 1..Len(s) |-> IF s[i] \in 65..90 THEN s[i] + 32 ELSE s[i]]

Includes(s, q) ==
  \E i \in 0..(Len(s) - Len(q)) : SubSeq(s, i + 1, i + Len(q)) = q

\* a < b in the code-unit order the default sort() compares strings by
RECURSIVE LexLess(_, _)
LexLess(a, b) ==
  IF b = <<>> THEN FALSE
  ELSE IF a = <<>> THEN TRUE
  ELSE IF Head(a) # Head(b) THEN Head(a) < Head(b)
  ELSE LexLess(Tail(a), Tail(b))

SeqToSet(s) == {s[i] : i \in 1..Len(s)}

\* s.split(sep) for a non-empty separator: the pieces between the occurrences
\* of sep, found left to right without overlap
RECURSIVE SplitOnAcc(_, _, _, _)
SplitOnAcc(s, sep, i, cur) ==
  IF i > Len(s) THEN <<cur>>
  ELSE IF i + Len(sep) - 1 <= Len(s) /\ SubSeq(s, i, i + Len(sep) - 1) = sep
       THEN <<cur>> \o SplitOnAcc(s, sep, i + Len(sep), <<>>)
       ELSE SplitOnAcc(s, sep, i + 1, Append(cur, s[i]))

SplitOn(s, sep) == SplitOnAcc(s, sep, 1, <<>>)

(***************************************************************************)
(* Numbers.  A number the code computes from text is NaN or the decimal    *)
(* fraction m / 10^e, kept as the record [nan, m, e].                      *)
(***************************************************************************)
NaN == [nan |-> TRUE, m |-> 0, e |-> 0]

Num(m, e) == [nan |-> FALSE, m |-> m, e |-> e]

Digits == 48..57

\* the longest run of decimal digits with at most one '.', read from s[i] on:
\* mantissa m, e digits after the point, n digits in all
RECURSIVE ScanNumber(_, _, _, _, _, _)
ScanNumber(s, i, m, e, dot, n) ==
  IF i <= Len(s) /\ s[i] \in Digits
  THEN ScanNumber(s, i + 1, m * 10 + (s[i] - 48), IF dot THEN e + 1 ELSE e, dot, n + 1)
  ELSE IF i <= Len(s) /\ s[i] = 46 /\ ~dot   \* '.'
       THEN ScanNumber(s, i + 1, m, e, TRUE, n)
       ELSE [m |-> m, e |-> e, n |-> n]

\* parseFloat of a cell (a missing column reads as the empty text): leading
\* white space skipped, an optional sign, then the longest numeric prefix;
\* NaN when that prefix holds no digit.  The cells carry no exponent part.
parseFloat(s) ==
  LET t == TrimStart(s)
      signed == t # <<>> /\ t[1] \in {43, 45}   \* '+', '-'
      r == ScanNumber(t, IF signed THEN 2 ELSE 1, 0, 0, FALSE, 0)
  IN IF r.n = 0 THEN NaN
     ELSE Num(IF signed /\ t[1] = 45 THEN 0 - r.m ELSE r.m, r.e)

\* x || 1 without the default: the parsed value is kept as it is
orOneKeepsAll(x) == x

\* x || 1: NaN, 0 and -0 are falsy
orOne(x) == IF x.nan \/ x.m = 0 THEN Num(1, 0) ELSE x

(***************************************************************************)
(* normalizeData                                                           *)
(***************************************************************************)
\* "drive.google.com", "/d/", and the two ends of the thumbnail URL
\* "https://drive.google.com/thumbnail?id=" and "&sz=w1000"
DriveHost == <<100, 114, 105, 118, 101, 46, 103, 111, 111, 103, 108, 101, 46, 99, 111, 109>>

FileMarker == <<47, 100, 47>>

ThumbnailPrefix == <<104, 116, 116, 112, 115, 58, 47, 47, 100, 114, 105, 118, 101, 46, 103, 111, 111, 103, 108, 101, 46, 99, 111, 109, 47, 116, 104, 117, 109, 98, 110, 97, 105, 108, 63, 105, 100, 61>>

ThumbnailSuffix == <<38, 115, 122, 61, 119, 49, 48, 48, 48>>

\* let photoLink = row['photo link'] || ''; part_000 and part_002 rewrite a
\* link that contains 'drive.google.com' and '/d/' into the thumbnail URL of
\* the file id, main.js and part_001 keep the cell
photoLinkOf(v, raw) ==
  IF v \in {"p0", "p2"} /\ raw # <<>> /\ Trim(raw) # <<>>
     /\ Includes(raw, DriveHost) /\ Includes(raw, FileMarker)
  THEN LET parts == SplitOn(raw, FileMarker)
       IN IF Len(parts) > 1
          THEN LET fileId == SplitOn(SplitOn(parts[2], <<47>>)[1], <<63>>)[1]
               IN ThumbnailPrefix \o fileId \o ThumbnailSuffix
          ELSE raw
  ELSE raw

NodeOf(row) ==
  [id |-> row.name, name |-> row.name, type |-> row.type,
   fields |-> SplitList(row.fields),
   schedule |-> SplitList(row.schedule),
   scale |-> orOne(parseFloat(row.scale)),
   description |-> row.description,
   previousEvent |-> row.previous,
   photoLink |-> photoLinkOf(variant, row.photo),
   connectedProjects |-> SplitList(row.connected)]

\* projectMap.get(name): the last node stored under the name, 0 when absent
projectMapGet(ns, name) ==
  LET S == {i \in 1..Len(ns) : ns[i].id = name}
  IN IF S = {} THEN 0 ELSE Max(S)

\* LinkId without the sort(): the key depends on which endpoint declares
LinkIdUnsorted(a, b) == a \o <<124>> \o b

\* [node.id, targetNode.id].sort().join('|')
LinkId(a, b) ==
  IF LexLess(b, a) THEN b \o <<124>> \o a ELSE a \o <<124>> \o b

\* BuildLinks keeping a link only when the target declares the source as well
RECURSIVE BuildLinksMutual(_, _, _, _, _)
BuildLinksMutual(ns, i, j, linkSet, acc) ==
  IF i > Len(ns) THEN acc
  ELSE IF j > Len(ns[i].connectedProjects)
       THEN BuildLinksMutual(ns, i + 1, 1, linkSet, acc)
       ELSE LET t == projectMapGet(ns, ns[i].connectedProjects[j])
            IN IF /\ t # 0
                  /\ ns[t].id # ns[i].id
                  /\ ns[i].id \in SeqToSet(ns[t].connectedProjects)
                  /\ LinkId(ns[i].id, ns[t].id) \notin linkSet
               THEN BuildLinksMutual(ns, i, j + 1,
                      linkSet \cup {LinkId(ns[i].id, ns[t].id)},
                      Append(acc, [source |-> ns[i].id, target |-> ns[t].id]))
               ELSE BuildLinksMutual(ns, i, j + 1, linkSet, acc)

RECURSIVE BuildLinks(_, _, _, _, _)
BuildLinks(ns, i, j, linkSet, acc) ==
  IF i > Len(ns) THEN acc
  ELSE IF j > Len(ns[i].connectedProjects)
       THEN BuildLinks(ns, i + 1, 1, linkSet, acc)
       ELSE LET t == projectMapGet(ns, ns[i].connectedProjects[j])
            IN IF t # 0 /\ ns[t].id # ns[i].id
               THEN LET linkId == LinkId(ns[i].id, ns[t].id)
                    IN IF linkId \notin linkSet
                       THEN BuildLinks(ns, i, j + 1, linkSet \cup {linkId},
                              Append(acc, [source |-> ns[i].id, target |-> ns[t].id]))
                       ELSE BuildLinks(ns, i, j + 1, linkSet, acc)
               ELSE BuildLinks(ns, i, j + 1, linkSet, acc)

normalizeData(csv) ==
  LET ns == [i \in 1..Len(csv) |-> NodeOf(csv[i])]
  IN [nodes |-> ns, links |-> BuildLinks(ns, 1, 1, {}, <<>>)]

\* loadData: the rejection of d3.csv is caught and an empty dataset returned
loadData(csv, failed) ==
  IF failed THEN [nodes |-> <<>>, links |-> <<>>] ELSE normalizeData(csv)

(***************************************************************************)
(* Layout: the horizontal target of a node, the positions the simulation   *)
(* gives the nodes, the pan/zoom transform.                                *)
(***************************************************************************)
\* the season names of SCHEDULE_ORDER
Winter == <<87, 105, 110, 116, 101, 114>>

Spring == <<83, 112, 114, 105, 110, 103>>

Summer == <<83, 117, 109, 109, 101, 114>>

Fall == <<70, 97, 108, 108>>

SCHEDULE_ORDER == <<Winter, Spring, Summer, Fall>>

\* d3.scalePoint().domain(domain).range([0.15 width, 0.85 width]).padding(0.5):
\* step = (r1 - r0) / max(1, n - 1 + 2 * 0.5), the points centred in the range
createScheduleScale(w) ==
  LET r0 == (w * 15) \div 100
      r1 == (w * 85) \div 100
      n == Len(SCHEDULE_ORDER)
      step == (r1 - r0) \div n
  IN [domain |-> SCHEDULE_ORDER, range |-> <<r0, r1>>, step |-> step,
      start |-> r0 + (r1 - r0 - step * (n - 1)) \div 2]

\* scheduleScale(value); undefined for a value outside the domain, which is
\* falsy like 0 and is 0 here
scheduleScale(scale, value) ==
  LET S == {i \in 1..Len(scale.domain) : scale.domain[i] = value}
  IN IF S = {} THEN 0 ELSE scale.start + scale.step * ((CHOOSE i \in S : TRUE) - 1)

getNodeXPosition(node, scale) ==
  IF Len(node.schedule) = 0 THEN scale.range[2] \div 2
  ELSE LET x == scheduleScale(scale, node.schedule[1])
       IN IF x # 0 THEN x ELSE scale.range[2] \div 2

\* the positions <<x, y>> of n nodes after the simulation has run: the forces
\* are not computed, a tick leaves the nodes in one of these layouts
Layout(n, p) == [i \in 1..n |-> <<10 * i + 3 * p, 40 + i - 7 * p>>]

Layouts(n) == {Layout(n, p) : p \in 0..MaxLayout}

\* d3.zoomIdentity
zoomIdentity == [k |-> 1, x |-> 0, y |-> 0]

\* the transforms a wheel or drag gesture on the canvas can leave behind
Transforms == {[k |-> k, x |-> (0 - 20) * (k - 1), y |-> 5 * (k - 1)] : k \in 1..MaxZoom}

(***************************************************************************)
(* Datasets.  A row maps column names to strings; a missing column and an  *)
(* empty one are both falsy for the code and are both <<>> here.           *)
(***************************************************************************)
Row(name, type, fields, connected) ==
  [name |-> name, type |-> type, fields |-> fields, connected |-> connected,
   schedule |-> <<>>, scale |-> <<>>,
   description |-> <<>>, previous |-> <<>>, photo |-> <<>>]

\* The dataset the interaction is explored on:
\*   "Ab" (type "T", fields "p",    connected "b")
\*   "b"  (type "U", fields "p, d", connected "Ab")
\*   "C"  (type "U", fields "d",    connected "d,d, C,zz")
\*   "d"  (type "T", no fields,     nothing declared)
DemoData ==
  << Row(<<65, 98>>, <<84>>, <<112>>, <<98>>),
     Row(<<98>>, <<85>>, <<112, 44, 32, 100>>, <<65, 98>>),
     Row(<<67>>, <<85>>, <<100>>, <<100, 44, 100, 44, 32, 67, 44, 122, 122>>),
     Row(<<100>>, <<84>>, <<>>, <<>>) >>

\* The dataset the drags are explored on: the first two rows of DemoData
DragData == SubSeq(DemoData, 1, 2)

\* Search strings typed into the search box: "" and "B"
Queries == { <<>>, <<66>> }

\* Project names and connected-projects cells of the datasets normalizeData
\* is checked on: "a", "b", "a|b";  "", "b", "a, b", "b,b", "a|b,zz", " a"
NormNames == { <<97>>, <<98>>, <<97, 124, 98>> }

NormConnected ==
  { <<>>, <<98>>, <<97, 44, 32, 98>>, <<98, 44, 98>>,
    <<97, 124, 98, 44, 122, 122>>, <<32, 97>> }

NormRows ==
  { Row(n, <<84>>, <<>>, c) : n \in NormNames, c \in NormConnected }

NormDatasets ==
  UNION { [1..k -> NormRows] : k \in 0..MaxRows }

\* Four projects, two of them with the character the link key is joined with
\* in their names: "a", "b|c", "a|b", "c"; each row declares one of
\*   "", "a", "c", "b|c", "a|b, zz"
PairNames == << <<97>>, <<98, 124, 99>>, <<97, 124, 98>>, <<99>> >>

PairCells ==
  { <<>>, <<97>>, <<99>>, <<98, 124, 99>>, <<97, 124, 98, 44, 32, 122, 122>> }

PairDatasets ==
  { [i \in 1..Len(PairNames) |-> Row(PairNames[i], <<84>>, <<>>, c[i])] :
      c \in [1..Len(PairNames) -> PairCells] }

\* The example dataset of the specification:
\*   "A" (type "Art",   fields "paint,sculpture", connected "B")
\*   "B" (type "Music", fields "paint",           connected "A,C")
\*   "C" (type "Music", fields "dance",           nothing declared)
ExampleData ==
  << Row(<<65>>, <<65, 114, 116>>,
         <<112, 97, 105, 110, 116, 44, 115, 99, 117, 108, 112, 116, 117, 114, 101>>,
         <<66>>),
     Row(<<66>>, <<77, 117, 115, 105, 99>>, <<112, 97, 105, 110, 116>>, <<65, 44, 67>>),
     Row(<<67>>, <<77, 117, 115, 105, 99>>, <<100, 97, 110, 99, 101>>, <<>>) >>

\* scale cells: missing or empty, "x", "-", ".", "0", "-0", "-2", "1.5", " 3", "2x"
ScaleCells ==
  { <<>>, <<120>>, <<45>>, <<46>>, <<48>>, <<45, 48>>, <<45, 50>>,
    <<49, 46, 53>>, <<32, 51>>, <<50, 120>> }

\* schedule cells: missing or empty, "Winter", "Fall, Spring", "summer", " ,Summer"
ScheduleCells ==
  { <<>>, Winter, Fall \o <<44, 32>> \o Spring,
    <<115, 117, 109, 109, 101, 114>>, <<32, 44>> \o Summer }

\* one-row datasets over the scale and schedule cells
AttrDatasets ==
  { << [Row(<<97>>, <<84>>, <<>>, <<>>) EXCEPT !.scale = sc, !.schedule = sd] >> :
      sc \in ScaleCells, sd \in ScheduleCells }

\* photo link cells
\* missing or empty: ""
NoPhoto ==
  <<>>

\* blank: "  "
BlankPhoto ==
  <<32, 32>>

\* share link (the specification's example): "https://drive.google.com/file/d/XYZ123/view?usp=sharing"
ShareLink ==
  <<104, 116, 116, 112, 115, 58, 47, 47, 100, 114, 105, 118, 101, 46, 103, 111, 111, 103, 108, 101, 46, 99, 111, 109, 47, 102, 105, 108, 101, 47, 100, 47, 88, 89, 90, 49, 50, 51, 47, 118, 105, 101, 119, 63, 117, 115, 112, 61, 115, 104, 97, 114, 105, 110, 103>>

\* share link, id ended by '?': "https://drive.google.com/file/d/XYZ123?usp=sharing"
ShareLinkQuery ==
  <<104, 116, 116, 112, 115, 58, 47, 47, 100, 114, 105, 118, 101, 46, 103, 111, 111, 103, 108, 101, 46, 99, 111, 109, 47, 102, 105, 108, 101, 47, 100, 47, 88, 89, 90, 49, 50, 51, 63, 117, 115, 112, 61, 115, 104, 97, 114, 105, 110, 103>>

\* Drive link without /d/: "https://drive.google.com/open?id=XYZ123"
DriveOpenLink ==
  <<104, 116, 116, 112, 115, 58, 47, 47, 100, 114, 105, 118, 101, 46, 103, 111, 111, 103, 108, 101, 46, 99, 111, 109, 47, 111, 112, 101, 110, 63, 105, 100, 61, 88, 89, 90, 49, 50, 51>>

\* plain image link: "https://example.com/a.png"
PlainLink ==
  <<104, 116, 116, 112, 115, 58, 47, 47, 101, 120, 97, 109, 112, 108, 101, 46, 99, 111, 109, 47, 97, 46, 112, 110, 103>>

\* link to another host that mentions drive.google.com: "https://example.com/d/a.png?from=drive.google.com"
ForeignLink ==
  <<104, 116, 116, 112, 115, 58, 47, 47, 101, 120, 97, 109, 112, 108, 101, 46, 99, 111, 109, 47, 100, 47, 97, 46, 112, 110, 103, 63, 102, 114, 111, 109, 61, 100, 114, 105, 118, 101, 46, 103, 111, 111, 103, 108, 101, 46, 99, 111, 109>>

PhotoCells ==
  {NoPhoto, BlankPhoto, ShareLink, ShareLinkQuery, DriveOpenLink, PlainLink, ForeignLink}

\* one-row datasets over the photo link cells
PhotoDatasets ==
  { << [Row(<<97>>, <<84>>, <<>>, <<>>) EXCEPT !.photo = ph] >> : ph \in PhotoCells }

\* The dataset the popup's content is explored on:
\*   "e" (no type, nothing else)
\*   "f" (type "T", schedule "Winter", fields "p", photo link, description "x",
\*        previous event "https://example.com/a.png")
\*   "g" (no type, schedule "Fall", description "  ")
PopupData ==
  << Row(<<101>>, <<>>, <<>>, <<>>),
     [Row(<<102>>, <<84>>, <<112>>, <<>>)
        EXCEPT !.schedule = Winter, !.photo = PlainLink, !.description = <<120>>,
               !.previous = PlainLink],
     [Row(<<103>>, <<>>, <<>>, <<>>)
        EXCEPT !.schedule = Fall, !.description = BlankPhoto] >>

\* container widths the layout is computed for
Widths == {800, 1600}

\* container sizes a resize leaves behind: <<clientWidth, clientHeight>>
ContainerSizes == { <<800, 600>>, <<1600, 900>> }

\* The simulation's alpha in levels: 0 is below alphaMin (0.001), AlphaWarm
\* is 0.3, AlphaFull is 1, the alpha of a new simulation; the level between
\* 0 and AlphaWarm stands for every alpha from alphaMin up to 0.3.
AlphaWarm == 2

AlphaFull == 3

\* pointer identifiers of the drag behaviour: 0 is the mouse, the others touches
Pointers == 0..MaxTouches

\* event.x, event.y of a drag move
DragPoints == { <<50, 60>> }

(***************************************************************************)
(* The mutable UI state as one record, so that the listeners an event      *)
(* dispatches to can be composed in dispatch order.                        *)
(***************************************************************************)
Cur ==
  [sT |-> selectedTypes, sF |-> selectedFields, q |-> searchQuery,
   clicked |-> clickedNode, hovered |-> hoveredNode,
   nodeOp |-> nodeOpacity, labelOp |-> labelOpacity, linkOp |-> linkOpacity,
   popVis |-> popupVisible, popNode |-> popupNode, popHtml |-> popupHtml,
   popTags |-> popupTagActive,
   handlers |-> popupHandlers, typeTags |-> typeTagActive,
   fieldTags |-> fieldTagActive, pos |-> nodePos, tr |-> transform,
   popPos |-> popupPos, width |-> width, height |-> height,
   xT |-> xTarget, yT |-> yTarget, center |-> center, pin |-> pin,
   gestures |-> gestures, alphaTarget |-> alphaTarget, alpha |-> alpha,
   running |-> running, timers |-> timers, svg |-> (pc = "ready"), simulation |-> (pc = "ready"),
   recomputes |-> 0]

NodeIds == 1..Len(nodes)

LinkIds == 1..Len(links)

\* buildFilters: the tags of the sidebar
allTypes == {nodes[i].type : i \in NodeIds} \ {<<>>}

allFields == UNION {SeqToSet(nodes[i].fields) : i \in NodeIds}

(***************************************************************************)
(* Filter engine                                                           *)
(***************************************************************************)
\* the opacity the filters give a dimmed node
FilterDim(v) == IF v \in {"main", "p1"} THEN 20 ELSE 15

hasMatchingField(d, sF) == \E i \in 1..Len(d.fields) : d.fields[i] \in sF

searchMisses(d, q) ==
  q # <<>> /\ ~Includes(ToLowerCase(d.name), ToLowerCase(q))

\* filterOpacity consulting the first active restriction category only
filterOpacityFirstOnly(v, d, sT, sF, q) ==
  IF sT # {} THEN (IF d.type \notin sT THEN FilterDim(v) ELSE 100)
  ELSE IF sF # {} THEN (IF ~hasMatchingField(d, sF) THEN FilterDim(v) ELSE 100)
  ELSE IF searchMisses(d, q) THEN FilterDim(v) ELSE 100

\* The callback applyFilters evaluates for node d.
\* main, p1, p2: three independent if-statements; p0: an if / else-if chain.
filterOpacity(v, d, sT, sF, q) ==
  IF v = "p0"
  THEN IF sT # {} /\ d.type \notin sT THEN 15
       ELSE IF sF # {}
            THEN (IF ~hasMatchingField(d, sF) THEN 15 ELSE 100)
            ELSE IF searchMisses(d, q) THEN 15 ELSE 100
  ELSE IF sT # {} /\ d.type \notin sT THEN FilterDim(v)
       ELSE IF sF # {} /\ ~hasMatchingField(d, sF) THEN FilterDim(v)
       ELSE IF searchMisses(d, q) THEN FilterDim(v)
       ELSE 100

\* nodeOpacityMap.get(id) || 1, for a map filled in node order
nodeOpacityMapGet(m, id) ==
  LET t == projectMapGet(nodes, id) IN IF t = 0 THEN 100 ELSE m[t]

\* stroke-opacity of a link that takes the minimum of its endpoints
minOfEndpoints(m, l) ==
  Min(nodeOpacityMapGet(m, l.source), nodeOpacityMapGet(m, l.target))

applyFilters(S) ==
  LET raw == [i \in NodeIds |-> filterOpacity(variant, nodes[i], S.sT, S.sF, S.q)]
      R == [S EXCEPT !.recomputes = @ + 1]
  IN CASE variant = "p0" ->
            [R EXCEPT !.nodeOp = [i \in NodeIds |-> nodeOpacityMapGet(raw, nodes[i].id)],
                      !.linkOp = [e \in LinkIds |-> minOfEndpoints(raw, links[e])]]
       [] variant = "p2" -> [R EXCEPT !.nodeOp = raw, !.labelOp = raw]
       [] OTHER -> [R EXCEPT !.nodeOp = raw]

resetFilters(S) ==
  applyFilters([S EXCEPT !.sT = {}, !.sF = {}, !.q = <<>>,
                         !.typeTags = {}, !.fieldTags = {}])

setFieldFilterState(S, field, shouldBeActive) ==
  LET T == [S EXCEPT
              !.fieldTags = IF field \in allFields
                            THEN (IF shouldBeActive THEN @ \cup {field} ELSE @ \ {field})
                            ELSE @,
              !.sF = IF shouldBeActive THEN @ \cup {field} ELSE @ \ {field}]
  IN applyFilters(T)

toggleFieldFilter(S, field) == setFieldFilterState(S, field, field \notin S.sF)

\* click listener of a sidebar type tag (all revisions): driven by the tag's class
typeTagClick(S, type) ==
  LET isActive == type \in S.typeTags
  IN applyFilters([S EXCEPT
       !.typeTags = IF isActive THEN @ \ {type} ELSE @ \cup {type},
       !.sT = IF isActive THEN @ \ {type} ELSE @ \cup {type}])

\* click listener of a sidebar field tag
fieldTagClick(S, field) ==
  IF variant \in {"p0", "p2"} THEN toggleFieldFilter(S, field)
  ELSE LET isActive == field \in S.fieldTags
       IN applyFilters([S EXCEPT
            !.fieldTags = IF isActive THEN @ \ {field} ELSE @ \cup {field},
            !.sF = IF isActive THEN @ \ {field} ELSE @ \cup {field}])

searchInput(S, value) == applyFilters([S EXCEPT !.q = value])

(***************************************************************************)
(* Popup (detail panel in main)                                            *)
(***************************************************************************)
\* the popup-tag buttons showPopup renders with the class 'active'
renderedActiveTags(S, n) ==
  IF variant \in {"p0", "p2"} THEN SeqToSet(nodes[n].fields) \cap S.sF ELSE {}

\* updatePopupPosition (p0, p2): the node's position under the current
\* transform, 15 px to the right and below; nothing while the popup is hidden
updatePopupPosition(S, n) ==
  IF ~S.popVis THEN S
  ELSE [S EXCEPT !.popPos = <<S.pos[n][1] * S.tr.k + S.tr.x + 15,
                              S.pos[n][2] * S.tr.k + S.tr.y + 15>>]

\* showPopup / showDetailPanel: innerHTML rewritten, popup shown; p0 also adds
\* one more click listener to the popup element itself; p0 and p2 end with
\* updatePopupPosition (p1 places the popup from the pointer event)
\* the description the dataset template carries: "*description*"
DescriptionPlaceholder == <<42, 100, 101, 115, 99, 114, 105, 112, 116, 105, 111, 110, 42>>

\* value is truthy and value.trim() !== ''
NotBlank(value) == Trim(value) # <<>>

\* the text of the type line: part_000 appends " | " and the first schedule value
typeScheduleText(v, node) ==
  IF v = "p0" /\ node.schedule # <<>> /\ node.schedule[1] # <<>>
  THEN node.type \o <<32, 124, 32>> \o node.schedule[1]
  ELSE node.type

\* the elements showPopup / showDetailPanel puts into the html of a node
popupElements(v, node) ==
  (IF NotBlank(node.photoLink) THEN {"photo"} ELSE {})
  \cup {"name", "type"}
  \cup (IF v = "main" /\ node.schedule # <<>> THEN {"schedule"} ELSE {})
  \cup (IF v = "main" THEN {"scale"} ELSE {})
  \cup (IF /\ NotBlank(node.description)
            /\ (v \in {"main", "p1"} => node.description # DescriptionPlaceholder)
         THEN {"description"} ELSE {})
  \cup (IF node.fields # <<>> THEN {"tags"} ELSE {})
  \cup (IF NotBlank(node.previousEvent) THEN {"button"} ELSE {})

showPopup(S, n) ==
  LET T == [S EXCEPT !.popVis = TRUE, !.popNode = n,
                     !.popHtml = [elements |-> popupElements(variant, nodes[n]),
                                  typeText |-> typeScheduleText(variant, nodes[n])],
                     !.popTags = renderedActiveTags(S, n),
                     !.handlers = IF variant = "p0" THEN @ + 1 ELSE @]
  IN IF variant \in {"p0", "p2"} THEN updatePopupPosition(T, n) ELSE T

\* hidePopup / closeDetailPanel
hidePopup(S) == [S EXCEPT !.popVis = FALSE]

closePopup(S) == hidePopup([S EXCEPT !.clicked = 0, !.hovered = 0])

(***************************************************************************)
(* Hover, mouse-out and click on a node                                    *)
(***************************************************************************)
touches(l, d) == l.source = nodes[d].id \/ l.target = nodes[d].id

\* connectedIds of handleNodeHover / handleNodeClick (p0)
connectedIds(d) ==
  {nodes[d].id} \cup {l.target : l \in {x \in SeqToSet(links) : x.source = nodes[d].id}}
                \cup {l.source : l \in {x \in SeqToSet(links) : x.target = nodes[d].id}}

\* hoverOpacity without the connectedIds branch (the callback of main, p1, p2)
hoverOpacityTypeOnly(v, n, d) ==
  IF nodes[n].id = nodes[d].id THEN 100
  ELSE IF nodes[n].type = nodes[d].type THEN 100
  ELSE IF v \in {"main", "p1"} THEN 25 ELSE 15

\* the opacity the hover callback gives node n while d is hovered
hoverOpacity(v, n, d) ==
  IF nodes[n].id = nodes[d].id THEN 100
  ELSE IF v = "p0" /\ nodes[n].id \in connectedIds(d) THEN 100
  ELSE IF nodes[n].type = nodes[d].type THEN 100
  ELSE IF v \in {"main", "p1"} THEN 25 ELSE 15

\* clickOpacity with the same-type branch of the hover callback left in
clickOpacityKeepsType(n, d) ==
  IF nodes[n].id = nodes[d].id THEN 100
  ELSE IF nodes[n].id \in connectedIds(d) THEN 100
  ELSE IF nodes[n].type = nodes[d].type THEN 100
  ELSE 15

\* clickOpacity taking the minimum with the opacity the filters prescribe
clickOpacityUnderFilter(n, d) ==
  Min(filterOpacity(variant, nodes[n], selectedTypes, selectedFields, searchQuery),
      IF nodes[n].id = nodes[d].id THEN 100
      ELSE IF nodes[n].id \in connectedIds(d) THEN 100
      ELSE 15)

\* the opacity the click callback of p0 gives node n when d is clicked
clickOpacity(n, d) ==
  IF nodes[n].id = nodes[d].id THEN 100
  ELSE IF nodes[n].id \in connectedIds(d) THEN 100
  ELSE 15

\* highlightLinkOpacity with the constant 0.2 of main, p1 and p2 for every
\* link that does not touch the node
highlightLinkOpacityFlat(v, m, l, d) ==
  IF touches(l, d) THEN 100 ELSE 20

\* stroke-opacity callback of the highlight (hover and click)
highlightLinkOpacity(v, m, l, d) ==
  IF touches(l, d) THEN 100
  ELSE IF v = "p0" THEN minOfEndpoints(m, l) ELSE 20

\* hoverSuppressed with the comparison of the ids inverted
hoverSuppressedSameNode(S, d) ==
  variant \in {"p0", "p2"} /\ S.clicked # 0 /\ nodes[S.clicked].id = nodes[d].id

\* a hover on d that another clicked node suppresses (p0, p2)
hoverSuppressed(S, d) ==
  variant \in {"p0", "p2"} /\ S.clicked # 0 /\ nodes[S.clicked].id # nodes[d].id

handleNodeHover(S, d) ==
  IF hoverSuppressed(S, d) THEN S
  ELSE LET raw == [n \in NodeIds |-> hoverOpacity(variant, n, d)]
           H == [S EXCEPT
                   !.hovered = IF variant \in {"p0", "p2"} THEN d ELSE @,
                   !.linkOp = [e \in LinkIds |-> highlightLinkOpacity(variant, raw, links[e], d)],
                   !.nodeOp = IF variant = "p0"
                              THEN [n \in NodeIds |-> nodeOpacityMapGet(raw, nodes[n].id)]
                              ELSE raw,
                   !.labelOp = IF variant = "p2" THEN raw ELSE @]
       IN IF variant = "main" THEN H ELSE showPopup(H, d)

\* the links' stroke-opacity written by handleNodeMouseOut before applyFilters
resetLinks(S) == [S EXCEPT !.linkOp = [e \in LinkIds |-> 60]]

\* handleNodeMouseOut without the early return for the clicked node
handleNodeMouseOutNoReturn(S, d) ==
  LET H == [S EXCEPT !.hovered = IF variant \in {"p0", "p2"} THEN 0 ELSE @]
      R == applyFilters(resetLinks(H))
  IN IF variant = "main" THEN R ELSE hidePopup(R)

\* handleNodeMouseOut leaving the opacities alone when d is the clicked node
handleNodeMouseOutKeepsHighlight(S, d) ==
  LET H == [S EXCEPT !.hovered = IF variant \in {"p0", "p2"} THEN 0 ELSE @]
      R == applyFilters(resetLinks(H))
  IN CASE variant = "main" -> R
       [] H.clicked # 0 /\ nodes[H.clicked].id = nodes[d].id -> H
       [] variant = "p1" -> hidePopup(R)
       [] OTHER -> IF R.clicked = 0 THEN hidePopup(R) ELSE R

handleNodeMouseOut(S, d) ==
  LET H == [S EXCEPT !.hovered = IF variant \in {"p0", "p2"} THEN 0 ELSE @]
      R == applyFilters(resetLinks(H))
  IN CASE variant = "main" -> R
       [] H.clicked # 0 /\ nodes[H.clicked].id = nodes[d].id -> R
       [] variant = "p1" -> hidePopup(R)
       [] OTHER -> IF R.clicked = 0 THEN hidePopup(R) ELSE R

handleNodeClick(S, d) ==
  CASE variant = "main" -> showPopup(S, d)
    [] variant \in {"p1", "p2"} -> showPopup([S EXCEPT !.clicked = d], d)
    [] OTHER ->
         LET raw == [n \in NodeIds |-> clickOpacity(n, d)]
         IN showPopup([S EXCEPT
              !.clicked = d,
              !.linkOp = [e \in LinkIds |-> highlightLinkOpacity(variant, raw, links[e], d)],
              !.nodeOp = [n \in NodeIds |-> nodeOpacityMapGet(raw, nodes[n].id)]], d)

(***************************************************************************)
(* Listeners above the nodes.  A click's target lies in one region:        *)
(* "node", "background" (the svg or its g), "popup", or "controls" (the    *)
(* filter panel #filters-popup with the tags, the search box and the reset *)
(* button; its backdrop; the .top-btn buttons).                            *)
(***************************************************************************)
\* p0: document click listener, capture phase
handleOutsideClick(S, region) ==
  IF ~S.popVis THEN S
  ELSE IF region \in {"popup", "node", "controls"} THEN S
  ELSE closePopup(S)

\* p2: document click listener, bubble phase
documentClick(S, region) ==
  IF ~S.popVis THEN S
  ELSE IF region \in {"popup", "node"} THEN S
  ELSE closePopup(S)

\* svg click listener; the target is the svg or g element
svgClick(S) ==
  CASE variant = "main" -> hidePopup(S)
    [] variant = "p1" -> hidePopup([S EXCEPT !.clicked = 0])
    [] OTHER -> closePopup(S)

\* the listeners a click in a region outside the nodes reaches before (p0,
\* capture) and after (p2, bubble) the target's own listener
beforeTarget(S, region) ==
  IF variant = "p0" THEN handleOutsideClick(S, region) ELSE S

afterTarget(S, region) ==
  IF variant = "p2" THEN documentClick(S, region) ELSE S

\* one click listener of a popup tag: toggle the field, then set the tag's class
popupTagListener(S, field) ==
  LET T == toggleFieldFilter(S, field)
  IN [T EXCEPT !.popTags = IF field \in T.sF THEN @ \cup {field} ELSE @ \ {field}]

\* the k popupClickHandler listeners registered on the popup element (p0)
RECURSIVE popupClickHandlers(_, _, _)
popupClickHandlers(S, field, k) ==
  IF k = 0 THEN S ELSE popupClickHandlers(popupTagListener(S, field), field, k - 1)

\* a click on the popup tag of a field: p2 has one listener on the tag itself
popupTagClick(S, field) ==
  IF variant = "p0" THEN popupClickHandlers(S, field, S.handlers)
  ELSE popupTagListener(S, field)

(***************************************************************************)
(* State machine                                                           *)
(***************************************************************************)
NoToggle == [op |-> <<>>, sf |-> {}]

\* the module-level declarations, before init() has run
Globals ==
  /\ pc = "start"
  /\ nodes = <<>>
  /\ links = <<>>
  /\ selectedTypes = {}
  /\ selectedFields = {}
  /\ searchQuery = <<>>
  /\ clickedNode = 0
  /\ hoveredNode = 0
  /\ nodeOpacity = <<>>
  /\ labelOpacity = <<>>
  /\ linkOpacity = <<>>
  /\ popupVisible = FALSE
  /\ popupNode = 0
  /\ popupHtml = [elements |-> {}, typeText |-> <<>>]
  /\ popupTagActive = {}
  /\ popupHandlers = 0
  /\ typeTagActive = {}
  /\ fieldTagActive = {}
  /\ xTarget = <<>>
  /\ nodePos = <<>>
  /\ transform = zoomIdentity
  /\ popupPos = <<0, 0>>
  /\ yTarget = 0
  /\ center = <<0, 0>>
  /\ pin = <<>>
  /\ gestures = [p \in Pointers |-> 0]
  /\ alphaTarget = 0
  /\ alpha = 0
  /\ running = FALSE
  /\ timers = <<>>
  /\ lastEvent = <<"none", 0>>
  /\ recomputes = 0
  /\ preToggle = NoToggle
  /\ interacted = FALSE

\* the interaction on the demo dataset, the fetch succeeding or failing
Init ==
  /\ variant \in Variants
  /\ csvData = DemoData
  /\ fetchError \in BOOLEAN
  /\ width = 800
  /\ height = 600
  /\ Globals

\* normalizeData and the layout targets on the bounded datasets
InitNorm ==
  /\ variant \in Variants
  /\ csvData \in NormDatasets \cup PairDatasets \cup AttrDatasets \cup PhotoDatasets
               \cup {ExampleData}
  /\ fetchError = FALSE
  /\ width \in Widths
  /\ height = 600
  /\ Globals

\* the events whose listeners write the opacities: hover, click, mouse-out,
\* the filter controls and reset
OpacityEvents ==
  {"mouseover", "click", "mouseout", "typeTag", "fieldTag", "search", "reset", "popupTag"}

\* the state an event leaves behind
Commit(S, ev, pre) ==
  /\ selectedTypes' = S.sT
  /\ selectedFields' = S.sF
  /\ searchQuery' = S.q
  /\ clickedNode' = S.clicked
  /\ hoveredNode' = S.hovered
  /\ nodeOpacity' = S.nodeOp
  /\ labelOpacity' = S.labelOp
  /\ linkOpacity' = S.linkOp
  /\ popupVisible' = S.popVis
  /\ popupNode' = S.popNode
  /\ popupHtml' = S.popHtml
  /\ popupTagActive' = S.popTags
  /\ popupHandlers' = S.handlers
  /\ typeTagActive' = S.typeTags
  /\ fieldTagActive' = S.fieldTags
  /\ nodePos' = S.pos
  /\ transform' = S.tr
  /\ popupPos' = S.popPos
  /\ width' = S.width
  /\ height' = S.height
  /\ xTarget' = S.xT
  /\ yTarget' = S.yT
  /\ center' = S.center
  /\ pin' = S.pin
  /\ gestures' = S.gestures
  /\ alphaTarget' = S.alphaTarget
  /\ alpha' = S.alpha
  /\ running' = S.running
  /\ timers' = S.timers
  /\ lastEvent' = ev
  /\ recomputes' = S.recomputes
  /\ preToggle' = pre
  /\ interacted' = (interacted \/ ev[1] \in OpacityEvents)
  /\ UNCHANGED <<variant, pc, csvData, nodes, links, fetchError>>

\* init(): loadData, then initVisualization and buildFilters unless no node was loaded.
\* An attribute the code has not written yet renders as fully opaque (100).
\* init with the early return removed: it goes on whatever was loaded
initProceedsAlways(data) == TRUE

\* init returns after 'No data loaded' unless a node was loaded
initProceeds(data) == Len(data.nodes) # 0

init ==
  /\ pc = "start"
  /\ LET data == loadData(csvData, fetchError)
         n == IF initProceeds(data) THEN Len(data.nodes) ELSE 0
     IN /\ nodes' = data.nodes
        /\ links' = data.links
        /\ pc' = IF initProceeds(data) THEN "ready" ELSE "empty"
        /\ nodeOpacity' = [i \in 1..Len(data.nodes) |-> 100]
        /\ labelOpacity' = [i \in 1..Len(data.nodes) |-> 100]
        /\ linkOpacity' = [e \in 1..Len(data.links) |-> 100]
        /\ xTarget' = [i \in 1..n |->
                         getNodeXPosition(data.nodes[i], createScheduleScale(width))]
        /\ nodePos' = Layout(n, 0)
        /\ pin' = [i \in 1..n |-> <<>>]
        /\ yTarget' = IF initProceeds(data) THEN height \div 2 ELSE yTarget
        /\ center' = IF initProceeds(data)
                      THEN <<width \div 2, height \div 2>> ELSE center
        /\ alpha' = IF initProceeds(data) THEN AlphaFull ELSE alpha
        /\ running' = initProceeds(data)
  /\ lastEvent' = <<"init", 0>>
  /\ UNCHANGED <<variant, csvData, selectedTypes, selectedFields, searchQuery,
                 clickedNode, hoveredNode, popupVisible, popupNode, popupHtml,
                 popupTagActive, popupHandlers, typeTagActive, fieldTagActive,
                 fetchError, width, transform, popupPos, height, gestures,
                 alphaTarget, timers, recomputes, preToggle, interacted>>

\* room for the listeners one more showPopup call adds (p0)
CanShowPopup == variant # "p0" \/ popupHandlers < MaxHandlers

NodeMouseOver(d) ==
  /\ pc = "ready"
  /\ hoverSuppressed(Cur, d) \/ CanShowPopup
  /\ Commit(handleNodeHover(Cur, d), <<"mouseover", d>>, NoToggle)

NodeMouseOut(d) ==
  /\ pc = "ready"
  /\ Commit(handleNodeMouseOut(Cur, d), <<"mouseout", d>>, NoToggle)

\* click on a node: handleNodeClick stops the propagation to svg and document
NodeClick(d) ==
  /\ pc = "ready"
  /\ CanShowPopup
  /\ Commit(handleNodeClick(beforeTarget(Cur, "node"), d), <<"click", d>>, NoToggle)

\* click on the empty canvas
BackgroundClick ==
  /\ pc = "ready"
  /\ Commit(afterTarget(svgClick(beforeTarget(Cur, "background")), "background"),
            <<"background", 0>>, NoToggle)

TypeTagClick(type) ==
  /\ pc = "ready"
  /\ Commit(afterTarget(typeTagClick(beforeTarget(Cur, "controls"), type), "controls"),
            <<"typeTag", 0>>, NoToggle)

FieldTagClick(field) ==
  /\ pc = "ready"
  /\ Commit(afterTarget(fieldTagClick(beforeTarget(Cur, "controls"), field), "controls"),
            <<"fieldTag", field>>, [op |-> nodeOpacity, sf |-> selectedFields])

\* 'input' event of the search box
SearchInput(value) ==
  /\ pc = "ready"
  /\ Commit(searchInput(Cur, value), <<"search", 0>>, NoToggle)

ResetClick ==
  /\ pc = "ready"
  /\ Commit(afterTarget(resetFilters(beforeTarget(Cur, "controls")), "controls"),
            <<"reset", 0>>, NoToggle)

\* mouse click on a field tag inside the open popup (p0, p2); the listeners
\* stop the propagation, so nothing runs after them.  No touch preceded the
\* click, so popupClickHandler's timeSinceTouch test lets it through.
PopupTagClick(field) ==
  /\ pc = "ready"
  /\ variant \in {"p0", "p2"}
  /\ popupVisible
  /\ field \in SeqToSet(nodes[popupNode].fields)
  /\ Commit(popupTagClick(beforeTarget(Cur, "popup"), field),
            <<"popupTag", field>>, [op |-> nodeOpacity, sf |-> selectedFields])

\* mouse click inside the open popup, not on a field tag (p0, p2): the popup's
\* own listeners of p0 only stop the propagation
PopupClick ==
  /\ pc = "ready"
  /\ variant \in {"p0", "p2"}
  /\ popupVisible
  /\ Commit(afterTarget(beforeTarget(Cur, "popup"), "popup"), <<"popup", 0>>, NoToggle)

\* the document's touchend listener (p0, capture phase): the outside-click
\* check is deferred by 10 ms
touchEndListener(S, region) == [S EXCEPT !.timers = Append(@, region)]

\* a finger is lifted from the empty canvas or from the filter panel, where
\* no other touchend listener is registered
TouchEnd(region) ==
  /\ pc = "ready"
  /\ variant = "p0"
  /\ Len(timers) < MaxTimers
  /\ Commit(touchEndListener(Cur, region), <<"touchend", 0>>, NoToggle)

\* the timer of the oldest deferred check fires: handleOutsideClick runs with
\* the touchend event it was created for
DeferredCheck ==
  /\ pc = "ready"
  /\ timers # <<>>
  /\ Commit(handleOutsideClick([Cur EXCEPT !.timers = Tail(@)], Head(timers)),
            <<"timeout", 0>>, NoToggle)

\* the simulation's 'tick' listener: the popup follows clickedNode || hoveredNode
tickListener(S) ==
  LET nodeToUpdate == IF S.clicked # 0 THEN S.clicked ELSE S.hovered
  IN IF nodeToUpdate # 0 THEN updatePopupPosition(S, nodeToUpdate) ELSE S

\* alpha += (alphaTarget - alpha) * alphaDecay, in levels
alphaStep(a, target) ==
  IF a < target THEN a + 1 ELSE IF a > target THEN a - 1 ELSE a

\* simulation.tick(): alpha moves towards alphaTarget, a pinned node is put
\* at its pin, the other nodes where the forces take them
simulationTick(S, L) ==
  [S EXCEPT !.alpha = alphaStep(S.alpha, S.alphaTarget),
            !.pos = [n \in DOMAIN L |-> IF S.pin[n] # <<>> THEN S.pin[n] ELSE L[n]]]

\* after the 'tick' listeners: the timer stops once alpha is below alphaMin
stopAtRest(S) == [S EXCEPT !.running = (S.alpha > 0)]

\* one step of the running simulation: new positions, then the 'tick' listener
Tick ==
  /\ pc = "ready"
  /\ running
  /\ \E L \in Layouts(Len(nodes)) :
       Commit(stopAtRest(tickListener(simulationTick(Cur, L))), <<"tick", 0>>, NoToggle)

\* number of gestures the drag behaviour holds
ActiveGestures(g) == Cardinality({p \in DOMAIN g : g[p] # 0})

\* dragEnded resetting alphaTarget whatever event.active is
dragEndedAlwaysCools(S, event, d) ==
  [S EXCEPT !.alphaTarget = 0, !.pin[d] = <<>>]

dragStarted(S, event, d) ==
  LET R == IF event.active = 0
           THEN [S EXCEPT !.alphaTarget = AlphaWarm, !.running = TRUE]
           ELSE S
  IN [R EXCEPT !.pin[d] = R.pos[d]]

dragged(S, event, d) == [S EXCEPT !.pin[d] = <<event.x, event.y>>]

dragEnded(S, event, d) ==
  LET R == IF event.active = 0 THEN [S EXCEPT !.alphaTarget = 0] ELSE S
  IN [R EXCEPT !.pin[d] = <<>>]

\* mousedown or touchstart on a node: the drag behaviour opens a gesture for
\* the pointer; event.active counts the gestures open before this one
DragStart(p, d) ==
  /\ pc = "ready"
  /\ gestures[p] = 0
  /\ Commit(dragStarted([Cur EXCEPT !.gestures[p] = d],
                        [active |-> ActiveGestures(gestures)], d),
            <<"dragstart", d>>, NoToggle)

\* mousemove or touchmove of a pointer that holds a node
DragMove(p, pt) ==
  /\ pc = "ready"
  /\ gestures[p] # 0
  /\ Commit(dragged(Cur, [active |-> ActiveGestures(gestures), x |-> pt[1], y |-> pt[2]],
                    gestures[p]),
            <<"drag", gestures[p]>>, NoToggle)

\* mouseup or touchend of a pointer that holds a node: the gesture is closed;
\* event.active counts the gestures still open
DragEnd(p) ==
  /\ pc = "ready"
  /\ gestures[p] # 0
  /\ LET G == [gestures EXCEPT ![p] = 0]
     IN Commit(dragEnded([Cur EXCEPT !.gestures = G], [active |-> ActiveGestures(G)],
                         gestures[p]),
               <<"dragend", gestures[p]>>, NoToggle)

\* handleResize with the simulation left as it is (no alpha(0.3).restart())
handleResizeNoReheat(S, w, h) ==
  IF ~S.svg \/ ~S.simulation THEN S
  ELSE [S EXCEPT !.width = w, !.height = h,
                 !.xT = [i \in NodeIds |->
                           getNodeXPosition(nodes[i], createScheduleScale(w))],
                 !.center = <<w \div 2, h \div 2>>,
                 !.yT = h \div 2]

\* handleResize, the container being w wide and h high
handleResize(S, w, h) ==
  IF ~S.svg \/ ~S.simulation THEN S
  ELSE [S EXCEPT !.width = w, !.height = h,
                 !.xT = [i \in NodeIds |->
                           getNodeXPosition(nodes[i], createScheduleScale(w))],
                 !.center = <<w \div 2, h \div 2>>,
                 !.yT = h \div 2,
                 !.alpha = AlphaWarm, !.running = TRUE]

\* 'resize' event of the window; the listener is registered by init
Resize(w, h) ==
  /\ pc = "ready"
  /\ Commit(handleResize(Cur, w, h), <<"resize", 0>>, NoToggle)

\* the 'zoom' listener of the zoom behaviour: the new transform is set on g
zoomed(S, t) == [S EXCEPT !.tr = t]

\* the listener init() registers on the svg element for events of type 'zoom'
svgZoomListener(S) ==
  IF S.clicked # 0 THEN updatePopupPosition(S, S.clicked) ELSE S

\* a wheel or drag gesture changes the transform.  The zoom behaviour calls
\* the listeners registered with zoom.on; whether the svg element also gets
\* an event of type 'zoom' is left open.
ZoomPan ==
  /\ pc = "ready"
  /\ \E t \in Transforms \ {transform}, delivered \in BOOLEAN :
       Commit(IF delivered THEN svgZoomListener(zoomed(Cur, t)) ELSE zoomed(Cur, t),
              <<"zoom", 0>>, NoToggle)

Next ==
  \/ init
  \/ \E d \in NodeIds : NodeMouseOver(d)
  \/ \E d \in NodeIds : NodeMouseOut(d)
  \/ \E d \in NodeIds : NodeClick(d)
  \/ BackgroundClick
  \/ \E type \in allTypes : TypeTagClick(type)
  \/ \E field \in allFields : FieldTagClick(field)
  \/ \E value \in Queries : SearchInput(value)
  \/ ResetClick
  \/ \E field \in allFields : PopupTagClick(field)
  \/ PopupClick

Spec == Init /\ [][Next]_vars

NextNorm == init

SpecNorm == InitNorm /\ [][NextNorm]_vars

\* the popup following its node while the simulation ticks and the canvas is
\* panned and zoomed (p0, p2), on the demo dataset with no filter set
InitView ==
  /\ variant \in {"p0", "p2"}
  /\ csvData = DemoData
  /\ fetchError = FALSE
  /\ width = 800
  /\ height = 600
  /\ Globals

NextView ==
  \/ init
  \/ \E d \in NodeIds : NodeMouseOver(d)
  \/ \E d \in NodeIds : NodeMouseOut(d)
  \/ \E d \in NodeIds : NodeClick(d)
  \/ BackgroundClick
  \/ Tick
  \/ ZoomPan

SpecView == InitView /\ [][NextView]_vars

\* what the popup (the detail panel in main.js) shows for nodes with and
\* without type, schedule, fields, photo, description and previous event
InitPopup ==
  /\ variant \in Variants
  /\ csvData = PopupData
  /\ fetchError = FALSE
  /\ width = 800
  /\ height = 600
  /\ Globals

NextPopup ==
  \/ init
  \/ \E d \in NodeIds : NodeMouseOver(d)
  \/ \E d \in NodeIds : NodeMouseOut(d)
  \/ \E d \in NodeIds : NodeClick(d)
  \/ BackgroundClick

SpecPopup == InitPopup /\ [][NextPopup]_vars

\* touches outside the nodes and their deferred outside-click checks (p0)
InitTouch ==
  /\ variant = "p0"
  /\ csvData = DemoData
  /\ fetchError = FALSE
  /\ width = 800
  /\ height = 600
  /\ Globals

NextTouch ==
  \/ init
  \/ \E d \in NodeIds : NodeMouseOver(d)
  \/ \E d \in NodeIds : NodeMouseOut(d)
  \/ \E d \in NodeIds : NodeClick(d)
  \/ BackgroundClick
  \/ \E region \in {"background", "controls"} : TouchEnd(region)
  \/ DeferredCheck

SpecTouch == InitTouch /\ [][NextTouch]_vars

\* dragging nodes (main.js, part_000), with the events that can arrive while a
\* drag is going on
InitDrag ==
  /\ variant \in {"main", "p0"}
  /\ csvData = DragData
  /\ fetchError = FALSE
  /\ width = 800
  /\ height = 600
  /\ Globals

\* the drag gestures and the ticks of the simulation
NextGesture ==
  \/ init
  \/ \E p \in Pointers, d \in NodeIds : DragStart(p, d)
  \/ \E p \in Pointers, pt \in DragPoints : DragMove(p, pt)
  \/ \E p \in Pointers : DragEnd(p)
  \/ Tick

NextDrag ==
  \/ NextGesture
  \/ \E size \in ContainerSizes : Resize(size[1], size[2])
  \/ \E d \in NodeIds : NodeMouseOver(d)
  \/ \E d \in NodeIds : NodeClick(d)
  \/ TypeTagClick(DragData[1].type)
  \/ ResetClick

SpecDrag == InitDrag /\ [][NextDrag]_vars

\* drags and ticks only, no other event arriving; the timer of a running
\* simulation keeps calling step()
SpecDragLive == InitDrag /\ [][NextGesture]_vars /\ WF_vars(Tick)

(***************************************************************************)
(* Vocabulary of the properties                                            *)
(***************************************************************************)
EventName(ev) == ev[1]

EventArg(ev) == ev[2]

\* the node carrying an id (ids are unique in DemoData)
NodeWithId(id) == CHOOSE i \in NodeIds : nodes[i].id = id

SharesEdge(m, n) ==
  \E e \in LinkIds : {links[e].source, links[e].target} = {nodes[m].id, nodes[n].id}

LinkTouches(e, n) == nodes[n].id \in {links[e].source, links[e].target}

\* the three restrictions of the filter engine, read off the filter state
TypeRestricts(n) == selectedTypes # {} /\ nodes[n].type \notin selectedTypes

FieldRestricts(n) ==
  selectedFields # {} /\ SeqToSet(nodes[n].fields) \cap selectedFields = {}

SearchRestricts(n) ==
  searchQuery # <<>> /\ ~Includes(ToLowerCase(nodes[n].name), ToLowerCase(searchQuery))

\* the opacity the filter callback of the running revision prescribes for a
\* node in the state after the step
PrescribedNext(n) ==
  filterOpacity(variant', nodes'[n], selectedTypes', selectedFields', searchQuery')

PrescribedLinkNext(e) ==
  Min(PrescribedNext(NodeWithId(links[e].source)),
      PrescribedNext(NodeWithId(links[e].target)))

\* the last event was one whose listener ends with applyFilters
FiltersJustApplied ==
  pc = "ready" /\ EventName(lastEvent) \in {"typeTag", "fieldTag", "search", "reset", "mouseout"}

(***************************************************************************)
(* C1 (as stated): in all four revisions, after applyFilters a node is     *)
(* dimmed exactly when its type is excluded by a non-empty selectedTypes,  *)
(* or none of its fields is in a non-empty selectedFields, or its name     *)
(* does not contain the non-empty search query (case-insensitively).       *)
(***************************************************************************)
C1_DimmedIffSomeRestriction ==
  FiltersJustApplied =>
    \A n \in NodeIds :
      (nodeOpacity[n] < 100) <=>
        (TypeRestricts(n) \/ FieldRestricts(n) \/ SearchRestricts(n))

(***************************************************************************)
(* C2 (as stated): in p0, p1 and p2, while a click is active for node m, a *)
(* pointer-enter on another node changes nothing: the popup stays visible  *)
(* and keeps showing m, hoveredNode and all opacities are unchanged.       *)
(***************************************************************************)
HoverOnOtherThanClicked ==
  /\ pc = "ready"
  /\ clickedNode # 0
  /\ EventName(lastEvent') = "mouseover"
  /\ nodes[EventArg(lastEvent')].id # nodes[clickedNode].id

HoverChangedNothing ==
  /\ popupVisible' /\ popupNode' = clickedNode
  /\ clickedNode' = clickedNode
  /\ hoveredNode' = hoveredNode
  /\ UNCHANGED <<nodeOpacity, labelOpacity, linkOpacity>>

C3_ClickThenBackgroundRestores ==
  [][(variant = "p0" /\ EventName(lastEvent) = "click"
        /\ EventName(lastEvent') = "background")
     => /\ clickedNode' = 0 /\ hoveredNode' = 0 /\ ~popupVisible'
        /\ \A n \in NodeIds : nodeOpacity'[n] = PrescribedNext(n)
        /\ \A e \in LinkIds : linkOpacity'[e] = PrescribedLinkNext(e)]_vars

(***************************************************************************)
(* C4: in p0 and p2, on pointer-leave of node n: with no click active,     *)
(* hoveredNode becomes null, the popup is hidden and every node gets the   *)
(* opacity the filters prescribe; with a click active for n, the popup     *)
(* stays visible and still shows n.                                        *)
(***************************************************************************)
C4_MouseOut ==
  [][(variant \in {"p0", "p2"} /\ pc = "ready" /\ EventName(lastEvent') = "mouseout")
     => /\ clickedNode = 0 =>
             /\ hoveredNode' = 0
             /\ ~popupVisible'
             /\ \A n \in NodeIds : nodeOpacity'[n] = PrescribedNext(n)
             /\ variant = "p2" => \A n \in NodeIds : labelOpacity'[n] = PrescribedNext(n)
        /\ (clickedNode # 0 /\ clickedNode = EventArg(lastEvent')) =>
             /\ popupVisible'
             /\ popupNode' = EventArg(lastEvent')]_vars

C4_Witness ==
  /\ variant \in {"p0", "p2"}
  /\ EventName(lastEvent) = "mouseout"
  /\ clickedNode # 0
  /\ clickedNode = EventArg(lastEvent)
  /\ popupVisible /\ popupNode = clickedNode
  /\ \E n \in NodeIds : nodeOpacity[n] = 15

(***************************************************************************)
(* C5: in p0, from every state a click on node n makes n the clicked node, *)
(* shows the popup for n, leaves n and the nodes sharing an edge with n    *)
(* fully opaque and every other node dimmed whatever its type; an edge     *)
(* touching n is fully opaque, any other has the minimum of its endpoints. *)
(***************************************************************************)
HighlightLinksNext(n) ==
  \A e \in LinkIds :
    linkOpacity'[e] =
      IF LinkTouches(e, n) THEN 100
      ELSE Min(nodeOpacity'[NodeWithId(links[e].source)],
               nodeOpacity'[NodeWithId(links[e].target)])

C5_Click ==
  [][(variant = "p0" /\ pc = "ready" /\ EventName(lastEvent') = "click")
     => LET n == EventArg(lastEvent')
        IN /\ clickedNode' = n
           /\ popupVisible' /\ popupNode' = n
           /\ \A m \in NodeIds :
                nodeOpacity'[m] = IF m = n \/ SharesEdge(m, n) THEN 100 ELSE 15
           /\ HighlightLinksNext(n)]_vars

C5_Witness ==
  /\ variant = "p0"
  /\ EventName(lastEvent) = "click"
  /\ clickedNode = EventArg(lastEvent)
  /\ hoveredNode # 0 /\ hoveredNode # clickedNode
  /\ \E m \in NodeIds :
       /\ nodes[m].type = nodes[clickedNode].type
       /\ nodeOpacity[m] = 15
  /\ \E e \in LinkIds : linkOpacity[e] = 15

(***************************************************************************)
(* C6: in p0, when a hover on node n takes effect (no click active for     *)
(* another node), exactly n, the nodes sharing an edge with n and the      *)
(* nodes of n's type are fully opaque and all others are dimmed; an edge   *)
(* touching n is fully opaque, any other has the minimum of its endpoints. *)
(***************************************************************************)
C6_Hover ==
  [][(/\ variant = "p0" /\ pc = "ready"
      /\ EventName(lastEvent') = "mouseover"
      /\ (clickedNode = 0 \/ clickedNode = EventArg(lastEvent')))
     => LET n == EventArg(lastEvent')
        IN /\ \A m \in NodeIds :
                nodeOpacity'[m] =
                  IF m = n \/ SharesEdge(m, n) \/ nodes[m].type = nodes[n].type
                  THEN 100 ELSE 15
           /\ HighlightLinksNext(n)]_vars

C6_Witness ==
  /\ variant = "p0"
  /\ EventName(lastEvent) = "mouseover"
  /\ hoveredNode = EventArg(lastEvent)
  /\ \E m \in NodeIds :
       /\ SharesEdge(m, hoveredNode)
       /\ nodes[m].type # nodes[hoveredNode].type
       /\ nodeOpacity[m] = 100
  /\ \E m \in NodeIds : nodeOpacity[m] = 15
  /\ \E e \in LinkIds : ~LinkTouches(e, hoveredNode) /\ linkOpacity[e] = 15

(***************************************************************************)
(* C7 (as stated): from every reachable state, resetFilters leaves the     *)
(* three predicates empty, no sidebar tag marked active, and every node    *)
(* and every edge fully visible.  An edge counts as fully visible at       *)
(* stroke-opacity 1 and at the resting value 0.6 that mouse-out writes.    *)
(***************************************************************************)
LinkFullyVisible(e) == linkOpacity[e] >= 60

C7_ResetRestoresEverything ==
  (pc = "ready" /\ EventName(lastEvent) = "reset")
  => /\ selectedTypes = {} /\ selectedFields = {} /\ searchQuery = <<>>
     /\ typeTagActive = {} /\ fieldTagActive = {}
     /\ \A n \in NodeIds : nodeOpacity[n] = 100
     /\ \A e \in LinkIds : LinkFullyVisible(e)

(***************************************************************************)
(* C8 (as stated): from every reachable state, also while a hover or click *)
(* highlight is displayed, toggling a field filter on and then off again   *)
(* with no event in between leaves selectedFields and every node's opacity *)
(* as they were before the first toggle.                                   *)
(***************************************************************************)
IsFieldToggle(ev) == EventName(ev) \in {"fieldTag", "popupTag"}

C8_ToggleOnOffRestores ==
  [][(/\ pc = "ready"
      /\ IsFieldToggle(lastEvent) /\ IsFieldToggle(lastEvent')
      /\ EventArg(lastEvent') = EventArg(lastEvent)
      /\ EventArg(lastEvent) \notin preToggle.sf
      /\ EventArg(lastEvent) \in selectedFields
      /\ EventArg(lastEvent) \notin selectedFields')
     => /\ selectedFields' = preToggle.sf
        /\ nodeOpacity' = preToggle.op]_vars

(***************************************************************************)
(* C9 (as stated): in p0 and p2, one click on a field tag of the popup     *)
(* flips that field's membership in selectedFields exactly once and runs   *)
(* applyFilters once, however often showPopup was called before.           *)
(***************************************************************************)
C9_PopupTagFlipsOnce ==
  [][(variant \in {"p0", "p2"} /\ pc = "ready" /\ EventName(lastEvent') = "popupTag")
     => /\ (EventArg(lastEvent') \in selectedFields')
             # (EventArg(lastEvent') \in selectedFields)
        /\ recomputes' = 1]_vars

(***************************************************************************)
(* C10: the edge list normalizeData produces holds no edge from a node id  *)
(* to itself and no two edges with the same unordered pair of endpoints,   *)
(* whether a connection is declared by one endpoint, by both, or several   *)
(* times in one row.                                                       *)
(***************************************************************************)
C10_NoSelfLoopNoDuplicate ==
  /\ \A e \in LinkIds : links[e].source # links[e].target
  /\ \A e, f \in LinkIds :
       e # f => {links[e].source, links[e].target} # {links[f].source, links[f].target}

\* both rows declare each other, one of them twice, and one edge results
C10_Witness ==
  /\ pc = "ready"
  /\ Len(nodes) = 2
  /\ nodes[1].id # nodes[2].id
  /\ nodes[1].connectedProjects = <<nodes[2].id, nodes[2].id>>
  /\ nodes[2].connectedProjects = <<nodes[1].id>>
  /\ Len(links) = 1

(***************************************************************************)
(* C11 (as stated): for every dataset with unique project names, the       *)
(* unordered endpoint pairs of the edges normalizeData produces are        *)
(* exactly the pairs of distinct present projects of which one declares    *)
(* the other, each such pair yielding exactly one edge; a declared name    *)
(* that is not present yields no edge.                                     *)
(***************************************************************************)
UniqueNames == \A i, j \in NodeIds : nodes[i].id = nodes[j].id => i = j

\* node i lists the name of node j among its connected projects
Declares(i, j) == nodes[j].name \in SeqToSet(nodes[i].connectedProjects)

DeclaredPairs ==
  { {nodes[p[1]].id, nodes[p[2]].id} :
      p \in {q \in NodeIds \X NodeIds :
               q[1] # q[2] /\ (Declares(q[1], q[2]) \/ Declares(q[2], q[1]))} }

EdgePairs == { {links[e].source, links[e].target} : e \in LinkIds }

C11_EdgesAreDeclaredPairs ==
  (pc # "start" /\ UniqueNames)
  => /\ EdgePairs = DeclaredPairs
     /\ Len(links) = Cardinality(DeclaredPairs)

(***************************************************************************)
(* C12 (as stated): for the example dataset A (connected "B"), B           *)
(* (connected "A,C"), C (nothing declared), normalizeData produces exactly *)
(* one edge, between A and B.                                              *)
(***************************************************************************)
ExampleLoaded == pc # "start" /\ csvData = ExampleData

C12_ExampleOneEdge ==
  ExampleLoaded => (EdgePairs = { {<<65>>, <<66>>} } /\ Len(links) = 1)

\* C12 (amended): for the example dataset normalizeData produces exactly two
\* edges, A-B and B-C: B declares C, and C is present in the dataset.
C12_ExampleTwoEdges ==
  ExampleLoaded =>
    links = << [source |-> <<65>>, target |-> <<66>>],
               [source |-> <<66>>, target |-> <<67>>] >>

C12_Witness ==
  /\ ExampleLoaded
  /\ pc = "ready"
  /\ nodes[2].connectedProjects = << <<65>>, <<67>> >>
  /\ nodes[3].connectedProjects = <<>>

(***************************************************************************)
(* C13 (as stated): in p0 and p2, while the popup is open, a click closes  *)
(* it and clears clickedNode and hoveredNode exactly when its target is    *)
(* not on a node, not inside the popup and not inside a control region     *)
(* (filter panel with its tags and reset button, backdrop, top buttons):   *)
(* a click on the canvas clears, a click on a control or inside the popup  *)
(* leaves selection and popup as they were, a click on a node does not     *)
(* clear (the node becomes the clicked one and the popup shows).           *)
(***************************************************************************)
ControlClicks == {"typeTag", "fieldTag", "reset"}

PopupClicks == {"popup", "popupTag"}

C13_OutsideClickRegions ==
  [][(variant \in {"p0", "p2"} /\ pc = "ready" /\ popupVisible)
     => /\ EventName(lastEvent') = "background" =>
             (clickedNode' = 0 /\ hoveredNode' = 0 /\ ~popupVisible')
        /\ EventName(lastEvent') \in ControlClicks \cup PopupClicks =>
             UNCHANGED <<clickedNode, hoveredNode, popupVisible, popupNode>>
        /\ EventName(lastEvent') = "click" =>
             (popupVisible' /\ clickedNode' = EventArg(lastEvent'))]_vars

(***************************************************************************)
(* C14: in p0, in every reachable state after the first hover, click,      *)
(* mouse-out, filter or reset event, the opacity of every edge equals the  *)
(* minimum of the opacities of its two endpoint nodes.                     *)
(***************************************************************************)
C14_EdgeIsMinOfEndpoints ==
  (variant = "p0" /\ pc = "ready" /\ interacted)
  => \A e \in LinkIds :
       linkOpacity[e] = Min(nodeOpacity[NodeWithId(links[e].source)],
                            nodeOpacity[NodeWithId(links[e].target)])

\* a node is clicked under an active filter: one edge is dimmed with its
\* endpoints, the other is opaque with the clicked node and its neighbour
C14_Witness ==
  /\ variant = "p0" /\ pc = "ready" /\ interacted
  /\ clickedNode # 0
  /\ selectedFields # {}
  /\ \E e \in LinkIds : linkOpacity[e] = 15
  /\ \E e \in LinkIds : linkOpacity[e] = 100

(***************************************************************************)
(* C15 (as stated): in main, only the first active restriction category is *)
(* consulted: when selectedTypes is non-empty, a node whose type is        *)
(* selected is fully visible whatever selectedFields contains.             *)
(***************************************************************************)
TypeFilterPasses(n) == selectedTypes # {} /\ nodes[n].type \in selectedTypes

C15_SelectedTypeAlwaysVisible ==
  (variant = "main" /\ FiltersJustApplied)
  => \A n \in NodeIds : TypeFilterPasses(n) => nodeOpacity[n] = 100

\* C15 (amended): in main the three restrictions are combined conjunctively:
\* when selectedTypes is non-empty, a node whose type is selected is fully
\* visible exactly when it also passes the field filter and the search, and
\* is dimmed to 0.2 otherwise.
C15_SelectedTypeStillFiltered ==
  (variant = "main" /\ FiltersJustApplied)
  => \A n \in NodeIds :
       TypeFilterPasses(n) =>
         nodeOpacity[n] = IF FieldRestricts(n) \/ SearchRestricts(n) THEN 20 ELSE 100

C15_Witness ==
  /\ variant = "main" /\ FiltersJustApplied
  /\ \E n \in NodeIds :
       /\ TypeFilterPasses(n)
       /\ FieldRestricts(n)
       /\ ~SearchRestricts(n)
       /\ nodeOpacity[n] = 20

(***************************************************************************)
(* C16 (as stated): in p0 and p2, whenever the popup is visible for a node *)
(* that is clicked or only hovered, every simulation tick and every        *)
(* pan/zoom change leaves the popup at the screen position computed from   *)
(* that node's current position and the current transform; with one node   *)
(* clicked and another hovered, the clicked node is the one tracked.       *)
(***************************************************************************)
TrackedNext == IF clickedNode' # 0 THEN clickedNode' ELSE hoveredNode'

\* the node's position under the transform, with the popup's offset of 15 px
ScreenPosNext(n) ==
  <<nodePos'[n][1] * transform'.k + transform'.x + 15,
    nodePos'[n][2] * transform'.k + transform'.y + 15>>

C16_PopupTracksNode ==
  [][(/\ variant \in {"p0", "p2"} /\ pc = "ready"
      /\ EventName(lastEvent') \in {"tick", "zoom"}
      /\ popupVisible' /\ TrackedNext # 0)
     => popupPos' = ScreenPosNext(TrackedNext)]_vars

(***************************************************************************)
(* C17: if the dataset fetch fails, loadData yields an empty node list and *)
(* an empty edge list and init stops: no simulation is created, no filter  *)
(* UI is built, no listener is registered (pc never becomes "ready", no    *)
(* event is ever dispatched), and clickedNode, hoveredNode and the three   *)
(* filter predicates keep their initial values for the rest of the run.    *)
(***************************************************************************)
C17_FetchFailureStopsInit ==
  fetchError
  => /\ loadData(csvData, fetchError) = [nodes |-> <<>>, links |-> <<>>]
     /\ nodes = <<>> /\ links = <<>>
     /\ pc \in {"start", "empty"}
     /\ xTarget = <<>> /\ nodePos = <<>>
     /\ typeTagActive = {} /\ fieldTagActive = {}
     /\ EventName(lastEvent) \in {"none", "init"}
     /\ clickedNode = 0 /\ hoveredNode = 0
     /\ selectedTypes = {} /\ selectedFields = {} /\ searchQuery = <<>>

\* init has run on the failed fetch and has returned early
C17_Witness == fetchError /\ pc = "empty" /\ EventName(lastEvent) = "init"

(***************************************************************************)
(* C18: for every row whose scale column is missing, empty or does not     *)
(* begin with a number (after leading white space and an optional sign: a  *)
(* digit, or '.' and a digit), normalizeData gives the node scale 1.       *)
(***************************************************************************)
Unsigned(t) == IF t # <<>> /\ t[1] \in {43, 45} THEN Tail(t) ELSE t

StartsWithNumber(cell) ==
  LET u == Unsigned(TrimStart(cell))
  IN /\ u # <<>>
     /\ \/ u[1] \in Digits
        \/ (u[1] = 46 /\ Len(u) >= 2 /\ u[2] \in Digits)

C19_ScalePositive ==
  pc # "start"
  => \A i \in NodeIds : ~nodes[i].scale.nan /\ nodes[i].scale.m > 0

(***************************************************************************)
(* C20 (as stated): for every width, a node with no schedule entry, or     *)
(* whose first schedule value is not one of the four seasons, gets as      *)
(* horizontal target the midpoint of the range [0.15 width, 0.85 width] of *)
(* the schedule scale, that is 0.5 width.                                  *)
(***************************************************************************)
NoSeason(n) ==
  \/ Len(nodes[n].schedule) = 0
  \/ nodes[n].schedule[1] \notin SeqToSet(SCHEDULE_ORDER)

C20_DefaultTargetIsMidpoint ==
  pc = "ready"
  => \A n \in NodeIds :
       NoSeason(n) =>
         /\ 2 * xTarget[n] = createScheduleScale(width).range[1]
                               + createScheduleScale(width).range[2]
         /\ 2 * xTarget[n] = width

(***************************************************************************)
(* C21 (as stated): in part_000 and part_002 normalizeData maps a photo    *)
(* link that is a Google Drive share link (host drive.google.com, a path   *)
(* holding /d/<id>) to the thumbnail URL that embeds exactly <id>, the     *)
(* segment after /d/ up to the next '/' or '?'; every other photo link,    *)
(* the empty one included, is the node's photoLink unchanged.              *)
(***************************************************************************)
\* s up to, and without, the first code unit in stops
RECURSIVE TakeUntil(_, _)
TakeUntil(s, stops) ==
  IF s = <<>> \/ Head(s) \in stops THEN <<>>
  ELSE <<Head(s)>> \o TakeUntil(Tail(s), stops)

\* s after the first occurrence of q (s contains q)
AfterFirst(s, q) ==
  LET i == CHOOSE k \in 0..(Len(s) - Len(q)) :
             /\ SubSeq(s, k + 1, k + Len(q)) = q
             /\ \A j \in 0..(k - 1) : SubSeq(s, j + 1, j + Len(q)) # q
  IN SubSeq(s, i + Len(q) + 1, Len(s))

\* the URL after "://", its host (up to the first '/', '?' or '#') and the rest
AfterScheme(url) ==
  IF Includes(url, <<58, 47, 47>>) THEN AfterFirst(url, <<58, 47, 47>>) ELSE <<>>

HostOf(url) == TakeUntil(AfterScheme(url), {47, 63, 35})

PathOf(url) ==
  TakeUntil(SubSeq(AfterScheme(url), Len(HostOf(url)) + 1, Len(AfterScheme(url))),
            {63, 35})

IsShareLink(url) == HostOf(url) = DriveHost /\ Includes(PathOf(url), FileMarker)

ShareId(url) == TakeUntil(AfterFirst(url, FileMarker), {47, 63})

C21_ShareLinksOnlyBecomeThumbnails ==
  (pc = "ready" /\ variant \in {"p0", "p2"})
  => \A i \in 1..Len(nodes) :
       nodes[i].photoLink =
         IF IsShareLink(csvData[i].photo)
         THEN ThumbnailPrefix \o ShareId(csvData[i].photo) \o ThumbnailSuffix
         ELSE csvData[i].photo

(***************************************************************************)
(* C22 (as stated): a node has a pin (fx, fy not null) exactly while it is *)
(* being dragged: drag start pins it at its current position, a drag move  *)
(* sets the pin to the pointer, drag end clears the pin, and no other      *)
(* handler (hover, click, filter, reset, resize, tick) sets or clears a    *)
(* pin.                                                                    *)
(***************************************************************************)
\* some pointer holds node n after the step
DraggedNext(n) == \E p \in Pointers : gestures'[p] = n

DragEvents == {"dragstart", "drag", "dragend"}

\* what a step does to the pins: the drag listeners write the pin of their
\* node as the claim says, and nothing else writes a pin
PinStep ==
  LET ev == lastEvent'[1]
      d == lastEvent'[2]
  IN /\ ev = "dragstart" => pin'[d] = nodePos[d]
     /\ ev = "drag" => pin'[d] \in DragPoints
     /\ ev = "dragend" => pin'[d] = <<>>
     /\ ev \in DragEvents => \A n \in NodeIds \ {d} : pin'[n] = pin[n]
     /\ ev \notin DragEvents \cup {"init"} => pin' = pin

C22_PinnedExactlyWhileDragged ==
  [][ pc' = "ready"
      => /\ \A n \in 1..Len(nodes') : (pin'[n] # <<>>) <=> DraggedNext(n)
         /\ PinStep ]_vars

(***************************************************************************)
(* C23: handleResize replaces the x, y and center forces by ones computed  *)
(* from the new width and height and re-heats the simulation (alpha 0.3,   *)
(* restart); it leaves node positions, pins, the node and edge sets, the   *)
(* three filter predicates, clickedNode and hoveredNode as they are.  When *)
(* svg or simulation is null it changes nothing.                           *)
(***************************************************************************)
\* the forces after the step are the ones of the container size after it
ForcesFromSizeNext ==
  /\ xTarget' = [i \in 1..Len(nodes) |->
                   getNodeXPosition(nodes[i], createScheduleScale(width'))]
  /\ 2 * yTarget' \in {height', height' - 1}
  /\ center' = <<width' \div 2, height' \div 2>>

ResizeLeavesAlone ==
  /\ nodePos' = nodePos
  /\ pin' = pin
  /\ nodes' = nodes
  /\ links' = links
  /\ selectedTypes' = selectedTypes
  /\ selectedFields' = selectedFields
  /\ searchQuery' = searchQuery
  /\ clickedNode' = clickedNode
  /\ hoveredNode' = hoveredNode

C23_ResizeReplacesForcesOnly ==
  [][ /\ lastEvent'[1] = "resize"
         => /\ <<width', height'>> \in ContainerSizes
            /\ ForcesFromSizeNext
            /\ alpha' = AlphaWarm
            /\ running'
            /\ ResizeLeavesAlone
      /\ (~Cur.svg \/ ~Cur.simulation)
         => \A size \in ContainerSizes : handleResize(Cur, size[1], size[2]) = Cur ]_vars

\* a resize to the other container size has just been handled while a node
\* was pinned by a drag, a node was clicked and a type filter was set
C23_Witness ==
  /\ lastEvent[1] = "resize"
  /\ width = 1600
  /\ \E n \in NodeIds : pin[n] # <<>>
  /\ clickedNode # 0
  /\ selectedTypes # {}
  /\ alphaTarget = AlphaWarm

(***************************************************************************)
(* C26: the simulation's alphaTarget is 0.3 while at least one drag is in  *)
(* progress and is back at 0 once the last drag has ended, also when drags *)
(* overlap; after the last drag has ended, and if no further event         *)
(* arrives, the simulation eventually decays to rest (its timer stops).    *)
(***************************************************************************)
ActiveDrags == ActiveGestures(gestures)

\* the last drag has just ended
DragsOver == lastEvent[1] = "dragend" /\ ActiveDrags = 0

AtRest == ~running /\ alpha = 0

\* an event other than a tick of the simulation has arrived since
EventArrived == lastEvent[1] \notin {"dragend", "tick"}

C26_WarmWhileDraggedThenRest ==
  /\ [](pc = "ready" => /\ ActiveDrags > 0 => alphaTarget = AlphaWarm
                        /\ ActiveDrags = 0 => alphaTarget = 0)
  /\ (DragsOver ~> (AtRest \/ EventArrived))

\* one of two overlapping drags has just ended, the other one goes on
C26_Witness ==
  /\ lastEvent[1] = "dragend"
  /\ ActiveDrags = 1
  /\ alphaTarget = AlphaWarm
  /\ running

(***************************************************************************)
(* C24 (as stated): in p0, when a hover or click highlight is put on       *)
(* display, every node's opacity is the minimum of the opacity the filter  *)
(* state prescribes for it and the opacity the highlight rule prescribes   *)
(* (1 for the node itself, its neighbours and, on hover, the nodes of its  *)
(* type; 0.15 for the others): a node the filters dim is not shown opaque  *)
(* because it is a neighbour or of the same type.                          *)
(***************************************************************************)
\* the step puts the highlight of node n on display
HighlightShownNext(n) ==
  /\ variant = "p0" /\ pc = "ready"
  /\ EventName(lastEvent') \in {"click", "mouseover"}
  /\ EventArg(lastEvent') = n
  /\ EventName(lastEvent') = "mouseover" => clickedNode \in {0, n}

\* what the highlight rule alone prescribes for node m
HighlightPrescribedNext(m, n) ==
  IF \/ m = n
     \/ SharesEdge(m, n)
     \/ EventName(lastEvent') = "mouseover" /\ nodes[m].type = nodes[n].type
  THEN 100 ELSE 15

C24_HighlightNeverAboveFilter ==
  [][\A n \in NodeIds :
       HighlightShownNext(n)
       => \A m \in NodeIds :
            nodeOpacity'[m] = Min(PrescribedNext(m), HighlightPrescribedNext(m, n))]_vars

\* C24 (amended): in p0, when a hover or click highlight is put on display,
\* every node's opacity is the one the highlight rule prescribes, whatever
\* the filters prescribe for it: a neighbour (and, on hover, a node of the
\* same type) that the filters dim is shown fully opaque.  The minimum rule
\* is the one of the edges: an edge not touching the node has the minimum of
\* its endpoints' opacities.
C24_HighlightReplacesFilterOpacity ==
  [][\A n \in NodeIds :
       HighlightShownNext(n)
       => /\ \A m \in NodeIds : nodeOpacity'[m] = HighlightPrescribedNext(m, n)
          /\ HighlightLinksNext(n)]_vars

\* a click highlight is on display and shows a neighbour fully opaque that
\* the filters dim
C24_Witness ==
  /\ variant = "p0"
  /\ EventName(lastEvent) = "click"
  /\ clickedNode = EventArg(lastEvent)
  /\ \E m \in NodeIds \ {clickedNode} :
       /\ SharesEdge(m, clickedNode)
       /\ filterOpacity(variant, nodes[m], selectedTypes, selectedFields, searchQuery) < 100
       /\ nodeOpacity[m] = 100

(***************************************************************************)
(* C25 (as stated): in p0, showPopup renders each piece of the popup only  *)
(* when the node has the data for it: the photo, the type line (type with  *)
(* the first schedule value), the description, the field tags and the      *)
(* previous-event link.  A node with an empty type and no schedule gets no *)
(* type element, a node with no fields gets no tag container.              *)
(***************************************************************************)
C25_PiecesOnlyForData ==
  (variant = "p0" /\ pc = "ready" /\ popupVisible)
  => LET node == nodes[popupNode]
         shown == popupHtml.elements
     IN /\ "photo" \in shown <=> NotBlank(node.photoLink)
        /\ "type" \in shown <=> (node.type # <<>> \/ node.schedule # <<>>)
        /\ "description" \in shown <=> NotBlank(node.description)
        /\ "tags" \in shown <=> node.fields # <<>>
        /\ "button" \in shown <=> NotBlank(node.previousEvent)

(***************************************************************************)
(* C27 (as stated): in each revision with a popup (p0, p1, p2), in every   *)
(* reachable state in which clickedNode is not null the popup is visible   *)
(* and shows clickedNode; no hover or mouse-out on another node hides it   *)
(* or replaces its content.                                                *)
(***************************************************************************)
C27_ClickedNodeOwnsPopup ==
  (variant \in {"p0", "p1", "p2"} /\ pc = "ready" /\ clickedNode # 0)
  => (popupVisible /\ popupNode = clickedNode)

(***************************************************************************)
(* C28 (as stated): in p0, as long as clickedNode = n the displayed        *)
(* opacities are the click highlight of n (n and its neighbours fully      *)
(* opaque, every other node dimmed): no pointer-enter, pointer-leave or    *)
(* filter toggle replaces them before the click state is left.            *)
(***************************************************************************)
C28_ClickHighlightWhileClicked ==
  (variant = "p0" /\ pc = "ready" /\ clickedNode # 0)
  => \A m \in NodeIds :
       nodeOpacity[m] =
         IF m = clickedNode \/ SharesEdge(m, clickedNode) THEN 100 ELSE 15

\* C28 (amended): in p0 the click highlight of n is displayed by the click
\* itself; while clickedNode = n, every pointer-leave (of n or of another
\* node) and every filter change (type tag, field tag, search, reset)
\* replaces the displayed node opacities by the filter-prescribed ones, and
\* a pointer-enter on n itself replaces them by the hover highlight of n (the
\* nodes of n's type fully opaque as well); clickedNode stays n and the popup
\* stays visible with n's content.
C28_FiltersReplaceClickHighlight ==
  [][(/\ variant = "p0" /\ pc = "ready" /\ clickedNode # 0
      /\ EventName(lastEvent') \in {"mouseout", "mouseover", "typeTag", "fieldTag",
                                     "search", "reset"})
     => /\ clickedNode' = clickedNode
        /\ popupVisible' /\ popupNode' = clickedNode
        /\ EventName(lastEvent') # "mouseover"
           => \A m \in NodeIds : nodeOpacity'[m] = PrescribedNext(m)
        /\ lastEvent' = <<"mouseover", clickedNode>>
           => \A m \in NodeIds :
                nodeOpacity'[m] =
                  IF \/ m = clickedNode
                     \/ SharesEdge(m, clickedNode)
                     \/ nodes[m].type = nodes[clickedNode].type
                  THEN 100 ELSE 15]_vars

\* the pointer has left the clicked node, no filter is set, and a node that
\* is not a neighbour of the clicked node is fully opaque again
C28_Witness ==
  /\ variant = "p0"
  /\ clickedNode # 0
  /\ lastEvent = <<"mouseout", clickedNode>>
  /\ selectedTypes = {} /\ selectedFields = {} /\ searchQuery = <<>>
  /\ \E m \in NodeIds \ {clickedNode} :
       ~SharesEdge(m, clickedNode) /\ nodeOpacity[m] = 100

(***************************************************************************)
(* C29 (as stated): in p0 and p2, in every reachable state every displayed *)
(* filter tag agrees with the filter state: a sidebar type tag is active   *)
(* iff its type is in selectedTypes, a sidebar field tag is active iff its *)
(* field is in selectedFields, and each field tag of the open popup is     *)
(* active iff its field is in selectedFields, also after resetFilters or a *)
(* sidebar toggle performed while the popup is open.                       *)
(***************************************************************************)
SidebarTagsAgree ==
  /\ typeTagActive = selectedTypes
  /\ fieldTagActive = selectedFields

PopupTagsAgree ==
  popupVisible
  => popupTagActive = SeqToSet(nodes[popupNode].fields) \cap selectedFields

C29_TagsAgreeWithFilterState ==
  (variant \in {"p0", "p2"} /\ pc = "ready")
  => (SidebarTagsAgree /\ PopupTagsAgree)

(***************************************************************************)
(* C30 (as stated): in p0, the outside-click check a touchend defers by    *)
(* 10 ms never closes a popup or clears a selection created after that     *)
(* touchend: if a node is clicked between the touchend on the background   *)
(* and the run of its deferred check, clickedNode stays that node and its  *)
(* popup stays visible.                                                    *)
(***************************************************************************)
\* the step runs a deferred check, and the event before it was the click on
\* a node, so the check's touchend is older than the click
CheckRunsAfterClick ==
  /\ variant = "p0" /\ pc = "ready"
  /\ EventName(lastEvent) = "click"
  /\ EventName(lastEvent') = "timeout"

C30_DeferredCheckSparesLaterClick ==
  [][CheckRunsAfterClick
     => /\ clickedNode' = EventArg(lastEvent)
        /\ popupVisible' /\ popupNode' = EventArg(lastEvent)]_vars

====
